---- MODULE Spec2Model ----
(***************************************************************************)
(* Vision and Resource Manager HTTP bindings of google-cloud-python.       *)
(*                                                                         *)
(*   vision/_http.py            Connection, _HTTPVisionAPI.annotate,       *)
(*                              _make_request                              *)
(*   resource_manager/_http.py  Connection                                 *)
(*                                                                         *)
(* One synchronous caller.  A call of annotate runs the request loop pair  *)
(* by pair, posts the body to the transport, and decodes what the          *)
(* transport answers.  The transport (JSONConnection.api_request) and the  *)
(* server behind it are the environment: they answer with any mapping, or  *)
(* raise.                                                                  *)
(***************************************************************************)
EXTENDS Integers, Sequences, FiniteSets, TLC

VARIABLES
    pc,            \* where the caller is: idle, loop, sent, responded,
                   \* returned, raised, url
    images,        \* annotate's argument: sequence of (image, features)
    i,             \* index of the pair the for loop handles next
    requests,      \* the local list `requests`
    posts,         \* every api_request call made, in order
    api_response,  \* what api_request returned
    result,        \* annotate's return value
    error,         \* the exception that left the call
    url            \* result of filling API_URL_TEMPLATE

vars == <<pc, images, i, requests, posts, api_response, result, error, url>>

-----------------------------------------------------------------------------
(* Bounds of the model *)

MaxImages == 2
MaxFeatures == 2
MaxResponses == 2

SeqsUpTo(S, n) == UNION {[1..k -> S] : k \in 0..n}

-----------------------------------------------------------------------------
(* Values the caller can pass *)

\* Image objects, told apart by their content; the k-th pair of an input
\* carries the k-th of them.  as_dict is the collaborator's mapping conversion.
ImageAt(k) == [cls |-> "Image", content |-> k]

ImageAsDict(image) == [content |-> image.content]

\* Objects that may stand in a features position.  "Feature" is the
\* recognized class; "Duck" is some other object that happens to offer
\* as_dict; "int" is a plain value with neither.
FeatureValues ==
    {[cls |-> "Feature", feature_type |-> "LABEL_DETECTION", max_results |-> 1],
     [cls |-> "Feature", feature_type |-> "FACE_DETECTION",  max_results |-> 2],
     [cls |-> "Duck",    feature_type |-> "LOGO_DETECTION",  max_results |-> 3],
     [cls |-> "int",     feature_type |-> "",                max_results |-> 0]}

IsFeature(v) == v.cls = "Feature"

HasAsDict(v) == v.cls \in {"Feature", "Duck"}

FeatureAsDict(feature) ==
    [type |-> feature.feature_type, maxResults |-> feature.max_results]

\* The features argument: one bare object, or a list of objects.
FeatureArgs ==
    {[kind |-> "single", items |-> <<v>>] : v \in FeatureValues}
    \cup {[kind |-> "list", items |-> s] : s \in SeqsUpTo(FeatureValues, MaxFeatures)}

\* An input of annotate: n (image, features) pairs.
Input(n, fs) == [k \in 1..n |-> [image |-> ImageAt(k), features |-> fs[k]]]

-----------------------------------------------------------------------------
(* Exceptions *)

NoError == [type |-> "", msg |-> ""]
FeatureTypeError ==
    [type |-> "TypeError", msg |-> "Feature or list of Feature classes are required."]
NotIterableError == [type |-> "TypeError", msg |-> "object is not iterable"]
NoAsDictError == [type |-> "AttributeError", msg |-> "object has no attribute 'as_dict'"]
TransportError == [type |-> "TransportError", msg |-> "api_request failed"]

-----------------------------------------------------------------------------
(* _make_request *)

NoRequest == [image |-> [content |-> 0], features |-> <<>>]

Raise(e) == [raised |-> TRUE, error |-> e, request |-> NoRequest]
Return(r) == [raised |-> FALSE, error |-> NoError, request |-> r]

\* if isinstance(features, Feature): features = [features]
NormalizeUnwrapped(features) == features
Normalize(features) ==
    IF features.kind = "single" /\ IsFeature(features.items[1])
    THEN [kind |-> "list", items |-> features.items]
    ELSE features

\* any(isinstance(feature, Feature) for feature in features)
FeatureCheckAll(items) == \A j \in 1..Len(items) : IsFeature(items[j])
FeatureCheckSkipped(items) == TRUE
FeatureCheck(items) == \E j \in 1..Len(items) : IsFeature(items[j])

\* [feature.as_dict() for feature in features]
FeatureDicts(items) == [j \in 1..Len(items) |-> FeatureAsDict(items[j])]

MakeRequest(image, features) ==
    LET fs == Normalize(features) IN
    IF fs.kind # "list" THEN Raise(NotIterableError)
    ELSE IF ~FeatureCheck(fs.items) THEN Raise(FeatureTypeError)
    ELSE IF \E j \in 1..Len(fs.items) : ~HasAsDict(fs.items[j])
         THEN Raise(NoAsDictError)
    ELSE Return([image |-> ImageAsDict(image), features |-> FeatureDicts(fs.items)])

-----------------------------------------------------------------------------
(* The transport's answers and the Annotations decoder *)

ResponseItems == {[labelAnnotations |-> "cat"], [labelAnnotations |-> "dog"]}

\* A decoded JSON mapping: with or without the 'responses' key.
ApiResponses ==
    {[received |-> TRUE, has_responses |-> FALSE, responses |-> <<>>]}
    \cup {[received |-> TRUE, has_responses |-> TRUE, responses |-> s] :
            s \in SeqsUpTo(ResponseItems, MaxResponses)}

NoResponse == [received |-> FALSE, has_responses |-> FALSE, responses |-> <<>>]

\* Annotations.from_api_repr(response)
FromApiRepr(response) == [cls |-> "Annotations", labels |-> response.labelAnnotations]

\* api_response.get('responses'): None when the key is absent
GetResponsesDefaultEmpty(resp) == [is_none |-> FALSE, seq |-> resp.responses]
GetResponses(resp) ==
    IF resp.has_responses
    THEN [is_none |-> FALSE, seq |-> resp.responses]
    ELSE [is_none |-> TRUE, seq |-> <<>>]

\* [Annotations.from_api_repr(response) for response in responses]
DecodeAllReversed(seq) == [j \in 1..Len(seq) |-> FromApiRepr(seq[Len(seq) + 1 - j])]
DecodeAll(seq) == [j \in 1..Len(seq) |-> FromApiRepr(seq[j])]

-----------------------------------------------------------------------------
(* Connection descriptors *)

\* '{api_base_url}/{api_version}{path}', as str.format reads it: replacement
\* fields and literal text, left to right.
VisionUrlTemplateNoSlash ==
    << <<"field", "api_base_url">>, <<"field", "api_version">>, <<"field", "path">> >>
VisionUrlTemplate ==
    << <<"field", "api_base_url">>, <<"text", "/">>,
       <<"field", "api_version">>, <<"field", "path">> >>

ResourceManagerUrlTemplate ==
    << <<"field", "api_base_url">>, <<"text", "/">>,
       <<"field", "api_version">>, <<"field", "path">> >>

VisionConnection ==
    [API_BASE_URL |-> "https://vision.googleapis.com",
     API_VERSION |-> "v1",
     API_URL_TEMPLATE |-> VisionUrlTemplate]

ResourceManagerConnection ==
    [API_BASE_URL |-> "https://cloudresourcemanager.googleapis.com",
     API_VERSION |-> "v1beta1",
     API_URL_TEMPLATE |-> ResourceManagerUrlTemplate]

Connections == {"resource_manager", "vision"}

Connection(c) == IF c = "vision" THEN VisionConnection ELSE ResourceManagerConnection

Paths == {"/test", "/images:annotate", "/projects", ""}

RECURSIVE FormatFrom(_, _, _)
FormatFrom(template, kwargs, k) ==
    IF k > Len(template) THEN ""
    ELSE (IF template[k][1] = "field" THEN kwargs[template[k][2]] ELSE template[k][2])
         \o FormatFrom(template, kwargs, k + 1)

\* API_URL_TEMPLATE.format(api_base_url=..., api_version=..., path=path)
BuildApiUrl(c, path) ==
    FormatFrom(Connection(c).API_URL_TEMPLATE,
               [api_base_url |-> Connection(c).API_BASE_URL,
                api_version |-> Connection(c).API_VERSION,
                path |-> path],
               1)

NoUrl == [connection |-> "", path |-> "", url |-> ""]

-----------------------------------------------------------------------------
(* The caller *)

Init ==
    /\ pc = "idle"
    /\ images = <<>>
    /\ i = 1
    /\ requests = <<>>
    /\ posts = <<>>
    /\ api_response = NoResponse
    /\ result = <<>>
    /\ error = NoError
    /\ url = NoUrl

\* annotate(images) is entered: requests = []
Annotate ==
    /\ pc = "idle"
    /\ \E n \in 0..MaxImages : \E fs \in [1..n -> FeatureArgs] : images' = Input(n, fs)
    /\ pc' = "loop"
    /\ i' = 1
    /\ requests' = <<>>
    /\ UNCHANGED <<posts, api_response, result, error, url>>

\* for image, features in images: requests.append(_make_request(image, features))
AppendRequestKeepGoing ==
    /\ pc = "loop"
    /\ i <= Len(images)
    /\ LET made == MakeRequest(images[i].image, images[i].features) IN
         /\ requests' = IF made.raised THEN requests ELSE Append(requests, made.request)
         /\ i' = i + 1
         /\ UNCHANGED <<pc, error>>
    /\ UNCHANGED <<images, posts, api_response, result, url>>
AppendRequestPrepend ==
    /\ pc = "loop"
    /\ i <= Len(images)
    /\ LET made == MakeRequest(images[i].image, images[i].features) IN
         IF made.raised
         THEN /\ pc' = "raised"
              /\ error' = made.error
              /\ UNCHANGED <<requests, i>>
         ELSE /\ requests' = <<made.request>> \o requests
              /\ i' = i + 1
              /\ UNCHANGED <<pc, error>>
    /\ UNCHANGED <<images, posts, api_response, result, url>>
AppendRequest ==
    /\ pc = "loop"
    /\ i <= Len(images)
    /\ LET made == MakeRequest(images[i].image, images[i].features) IN
         IF made.raised
         THEN /\ pc' = "raised"
              /\ error' = made.error
              /\ UNCHANGED <<requests, i>>
         ELSE /\ requests' = Append(requests, made.request)
              /\ i' = i + 1
              /\ UNCHANGED <<pc, error>>
    /\ UNCHANGED <<images, posts, api_response, result, url>>

\* data = {'requests': requests}
\* self._connection.api_request(method='POST', path='/images:annotate', data=data)
ApiRequest ==
    /\ pc = "loop"
    /\ i > Len(images)
    /\ posts' = Append(posts, [method |-> "POST", path |-> "/images:annotate",
                               data |-> [requests |-> requests]])
    /\ pc' = "sent"
    /\ UNCHANGED <<images, i, requests, api_response, result, error, url>>

\* api_request returns a decoded JSON mapping
TransportReturns ==
    /\ pc = "sent"
    /\ \E resp \in ApiResponses : api_response' = resp
    /\ pc' = "responded"
    /\ UNCHANGED <<images, i, requests, posts, result, error, url>>

\* api_request raises; annotate has no handler around it
TransportRaisesRetry ==
    /\ pc = "sent"
    /\ IF Len(posts) < 2
       THEN /\ posts' = Append(posts, posts[Len(posts)])
            /\ UNCHANGED <<pc, error>>
       ELSE /\ pc' = "raised"
            /\ error' = TransportError
            /\ UNCHANGED posts
    /\ UNCHANGED <<images, i, requests, api_response, result, url>>
TransportRaises ==
    /\ pc = "sent"
    /\ pc' = "raised"
    /\ error' = TransportError
    /\ UNCHANGED <<images, i, requests, posts, api_response, result, url>>

\* responses = api_response.get('responses')
\* return [Annotations.from_api_repr(response) for response in responses]
DecodeOnePerInput ==
    /\ pc = "responded"
    /\ LET responses == GetResponses(api_response) IN
         IF responses.is_none
         THEN /\ pc' = "raised"
              /\ error' = NotIterableError
              /\ UNCHANGED result
         ELSE /\ pc' = "returned"
              /\ result' = DecodeAll(SubSeq(responses.seq, 1,
                            IF Len(images) < Len(responses.seq)
                            THEN Len(images) ELSE Len(responses.seq)))
              /\ UNCHANGED error
    /\ UNCHANGED <<images, i, requests, posts, api_response, url>>
Decode ==
    /\ pc = "responded"
    /\ LET responses == GetResponses(api_response) IN
         IF responses.is_none
         THEN /\ pc' = "raised"
              /\ error' = NotIterableError
              /\ UNCHANGED result
         ELSE /\ pc' = "returned"
              /\ result' = DecodeAll(responses.seq)
              /\ UNCHANGED error
    /\ UNCHANGED <<images, i, requests, posts, api_response, url>>

\* The shared transport fills a connection's URL template for a path.
FillUrlTemplate ==
    /\ pc = "idle"
    /\ \E c \in Connections, path \in Paths :
         url' = [connection |-> c, path |-> path, url |-> BuildApiUrl(c, path)]
    /\ pc' = "url"
    /\ UNCHANGED <<images, i, requests, posts, api_response, result, error>>

\* The caller has its result or its exception; every transient is dropped.
Finish ==
    /\ pc \in {"returned", "raised", "url"}
    /\ pc' = "idle"
    /\ images' = <<>>
    /\ i' = 1
    /\ requests' = <<>>
    /\ posts' = <<>>
    /\ api_response' = NoResponse
    /\ result' = <<>>
    /\ error' = NoError
    /\ url' = NoUrl

Next ==
    \/ Annotate
    \/ AppendRequest
    \/ ApiRequest
    \/ TransportReturns
    \/ TransportRaises
    \/ Decode
    \/ FillUrlTemplate
    \/ Finish

Spec == Init /\ [][Next]_vars

-----------------------------------------------------------------------------
(* Vocabulary of the properties *)

\* A call of annotate is under way or has just ended.
InAnnotate == pc \in {"loop", "sent", "responded", "returned", "raised"}

\* The call ended by an exception raised inside the request loop, at pair i.
RaisedInLoop == pc = "raised" /\ posts = <<>> /\ i <= Len(images)

\* A bare Feature, or a non-empty list holding Features only.
ValidPair(p) ==
    \/ p.features.kind = "single" /\ p.features.items[1].cls = "Feature"
    \/ /\ p.features.kind = "list"
       /\ Len(p.features.items) > 0
       /\ \A j \in 1..Len(p.features.items) : p.features.items[j].cls = "Feature"

\* The request the documentation describes for a pair: the image's mapping
\* and one mapping per feature, in the given order.
ExpectedRequest(p) ==
    [image |-> [content |-> p.image.content],
     features |-> [j \in 1..Len(p.features.items) |->
                     [type |-> p.features.items[j].feature_type,
                      maxResults |-> p.features.items[j].max_results]]]

\* A list of features with no Feature in it (the empty list included).
AllUnrecognized(p) ==
    /\ p.features.kind = "list"
    /\ \A j \in 1..Len(p.features.items) : p.features.items[j].cls # "Feature"

\* A list of features with at least one Feature in it.
SomeRecognized(p) ==
    /\ p.features.kind = "list"
    /\ \E j \in 1..Len(p.features.items) : p.features.items[j].cls = "Feature"

\* Every entry of the pair's features offers the mapping conversion.
AllConvertible(p) ==
    \A j \in 1..Len(p.features.items) : p.features.items[j].cls \in {"Feature", "Duck"}

\* The pair does not pass the feature check: a bare object that is no
\* Feature, or a list without any Feature.
FailsValidation(p) ==
    \/ p.features.kind = "single" /\ p.features.items[1].cls # "Feature"
    \/ AllUnrecognized(p)

SomePairFails == \E k \in 1..Len(images) : FailsValidation(images[k])

FirstFailing ==
    CHOOSE k \in 1..Len(images) :
        /\ FailsValidation(images[k])
        /\ \A m \in 1..(k - 1) : ~FailsValidation(images[m])

-----------------------------------------------------------------------------
(* Properties *)

\* C1: for an input list of valid (image, features) pairs, the body posted
\* to the transport is {requests: [...]} with one request per input pair, the
\* k-th built from the k-th pair (its image mapping, its feature mappings in
\* the given order); building it never fails.
C1_BodyMatchesInput ==
    (InAnnotate /\ \A k \in 1..Len(images) : ValidPair(images[k])) =>
        /\ ~RaisedInLoop
        /\ posts # <<>> =>
             /\ Len(posts[1].data.requests) = Len(images)
             /\ posts[1].data =
                  [requests |-> [k \in 1..Len(images) |-> ExpectedRequest(images[k])]]

C1_Witness ==
    /\ pc = "sent"
    /\ Len(images) = 2
    /\ ValidPair(images[1]) /\ ValidPair(images[2])
    /\ images[1].image # images[2].image
    /\ Len(images[1].features.items) = 2
    /\ images[1].features.items[1] # images[1].features.items[2]
    /\ Len(posts) = 1

\* C2: a pair whose feature list holds no recognized Feature makes request
\* construction fail with the type-constraint error; the loop never gets past
\* such a pair and no request is appended for it.
C2_AllUnrecognizedRaises ==
    InAnnotate =>
        /\ \A k \in 1..Len(images) : AllUnrecognized(images[k]) => i <= k
        /\ (RaisedInLoop /\ AllUnrecognized(images[i])) =>
             /\ error = FeatureTypeError
             /\ Len(requests) = i - 1

C2_Witness ==
    /\ RaisedInLoop
    /\ i = 2
    /\ AllUnrecognized(images[2])
    /\ Len(images[2].features.items) = 2
    /\ error = FeatureTypeError

\* C3 as stated: a pair whose feature list holds at least one recognized
\* Feature is always built successfully, whatever its other entries are.
C3_Original_MixedAlwaysSucceeds ==
    RaisedInLoop => ~SomeRecognized(images[i])

\* C3 amended: a pair whose feature list holds at least one recognized
\* Feature never fails with the type-constraint error; it is built (one
\* mapping per entry, in order) exactly when every entry offers the mapping
\* conversion, and fails with an attribute error otherwise.
C3_MixedPassesCheck ==
    InAnnotate =>
        /\ \A k \in 1..(i - 1) :
             SomeRecognized(images[k]) =>
                /\ AllConvertible(images[k])
                /\ requests[k] = ExpectedRequest(images[k])
        /\ (RaisedInLoop /\ SomeRecognized(images[i])) =>
             /\ error = NoAsDictError
             /\ ~AllConvertible(images[i])

C3_Witness ==
    /\ pc = "loop"
    /\ i = 2
    /\ SomeRecognized(images[1])
    /\ \E j \in 1..Len(images[1].features.items) :
         images[1].features.items[j].cls = "Duck"
    /\ Len(requests) = 1

\* C4: when the transport answers {responses: [R1, ..., Rn]}, annotate
\* returns [decode(R1), ..., decode(Rn)]: one Annotations per element, in the
\* response's order.
C4_ResultIsDecodedResponses ==
    /\ pc = "returned" =>
         /\ api_response.has_responses
         /\ result = [j \in 1..Len(api_response.responses) |->
                        [cls |-> "Annotations",
                         labels |-> api_response.responses[j].labelAnnotations]]
    /\ (pc = "raised" /\ api_response.received) => ~api_response.has_responses

C4_Witness ==
    /\ pc = "returned"
    /\ Len(result) = 2
    /\ result[1] # result[2]
    /\ Len(images) = 2

\* C5 as stated: whenever annotate returns, the result holds exactly one
\* Annotations per input pair, whatever the transport answered.
C5_Original_OnePerInput ==
    pc = "returned" => Len(result) = Len(images)

\* C5 amended: whenever annotate returns, the result holds exactly one
\* Annotations per element of the transport's responses array; it matches the
\* input 1:1 exactly when that array has as many elements as the request had
\* pairs.
C5_OnePerResponse ==
    pc = "returned" =>
        /\ Len(result) = Len(api_response.responses)
        /\ (Len(result) = Len(images)) <=>
             (Len(api_response.responses) = Len(posts[1].data.requests))

C5_Witness ==
    /\ pc = "returned"
    /\ Len(images) = 1
    /\ Len(api_response.responses) = 2
    /\ Len(result) = 2

\* C6: when the transport's answer lacks the responses key, annotate fails
\* with an error and returns no result list.
C6_MissingResponsesFails ==
    (api_response.received /\ ~api_response.has_responses) =>
        /\ pc \in {"responded", "raised"}
        /\ result = <<>>
        /\ pc = "raised" => error # NoError

C6_Witness ==
    /\ pc = "raised"
    /\ api_response.received
    /\ ~api_response.has_responses
    /\ error.type = "TypeError"
    /\ Len(images) > 0

\* C7: a bare Feature f passed as the features argument is treated as the
\* one-element list [f]: the request built from (image, f) is the request
\* built from (image, [f]), and its features array has exactly one element.
C7_BareFeatureIsWrapped ==
    InAnnotate =>
        \A k \in 1..Len(images) :
            (images[k].features.kind = "single" /\ images[k].features.items[1].cls = "Feature") =>
                /\ ~(RaisedInLoop /\ i = k)
                /\ k < i =>
                     /\ Len(requests[k].features) = 1
                     /\ LET wrapped == MakeRequest(images[k].image,
                                           [kind |-> "list",
                                            items |-> <<images[k].features.items[1]>>])
                        IN ~wrapped.raised /\ requests[k] = wrapped.request

C7_Witness ==
    /\ pc = "loop"
    /\ i = 2
    /\ images[1].features.kind = "single"
    /\ images[1].features.items[1].cls = "Feature"
    /\ Len(requests) = 1
    /\ Len(requests[1].features) = 1

\* C8: filling a connection's URL template gives base URL, "/", API version
\* and path, concatenated; for path "/test" that is
\* https://cloudresourcemanager.googleapis.com/v1beta1/test for Resource
\* Manager and https://vision.googleapis.com/v1/test for Vision.
C8_UrlFromTemplate ==
    pc = "url" =>
        /\ url.connection = "vision" =>
             url.url = "https://vision.googleapis.com" \o "/" \o "v1" \o url.path
        /\ url.connection = "resource_manager" =>
             url.url = "https://cloudresourcemanager.googleapis.com" \o "/"
                         \o "v1beta1" \o url.path
        /\ (url.connection = "vision" /\ url.path = "/test") =>
             url.url = "https://vision.googleapis.com/v1/test"
        /\ (url.connection = "resource_manager" /\ url.path = "/test") =>
             url.url = "https://cloudresourcemanager.googleapis.com/v1beta1/test"

C8_Witness ==
    /\ pc = "url"
    /\ url.connection = "vision"
    /\ url.path = "/test"
    /\ url.url = "https://vision.googleapis.com/v1/test"

\* C9: a call of annotate makes at most one api_request, a POST to
\* /images:annotate, and never retries: when the transport raises, that
\* error is what the caller gets, with no second request and no result list.
C9_OnePostNoRetry ==
    /\ Len(posts) <= 1
    /\ \A k \in 1..Len(posts) :
         posts[k].method = "POST" /\ posts[k].path = "/images:annotate"
    /\ (pc = "raised" /\ posts # <<>> /\ ~api_response.received) =>
         /\ error = TransportError
         /\ result = <<>>

C9_Witness ==
    /\ pc = "raised"
    /\ error = TransportError
    /\ Len(posts) = 1
    /\ Len(images) = 2

\* C10 as stated: if any pair of the input fails feature validation, annotate
\* raises the type error and nothing is posted.
C10_Original_TypeErrorAndNoPost ==
    (InAnnotate /\ SomePairFails) =>
        /\ posts = <<>>
        /\ pc = "raised" => error.type = "TypeError"

\* C10 amended: if any pair of the input fails feature validation, annotate
\* ends with an error before anything is posted; the error is the type error
\* of the first failing pair, unless an earlier pair that passed the check
\* holds an entry without the mapping conversion, which ends the call first
\* with an attribute error.
C10_NoPostOnFailedValidation ==
    (InAnnotate /\ SomePairFails) =>
        /\ posts = <<>>
        /\ pc \in {"loop", "raised"}
        /\ i <= FirstFailing
        /\ Len(requests) = i - 1
        /\ pc = "raised" =>
             IF i = FirstFailing
             THEN error.type = "TypeError"
             ELSE /\ error = NoAsDictError
                  /\ SomeRecognized(images[i])
                  /\ ~AllConvertible(images[i])

C10_Witness ==
    /\ pc = "raised"
    /\ Len(images) = 2
    /\ ValidPair(images[1])
    /\ images[2].features = [kind |-> "list", items |-> <<>>]
    /\ i = 2
    /\ Len(requests) = 1
    /\ posts = <<>>
    /\ error = FeatureTypeError

====
